---- MODULE Spec2Model ----
(***************************************************************************)
(* The file queue and the upload driver of src/src/App.tsx.                *)
(*                                                                         *)
(* The component keeps one piece of state, `files`, and changes it only    *)
(* through functional updaters (setFiles(prev => ...)).  React applies the *)
(* queued updaters in the order they were queued and JavaScript runs every *)
(* handler and every promise continuation to completion, so each updater   *)
(* is applied here at the point where the code queues it.  The handler     *)
(* handleFiles is split at its forEach loop; while the loop runs           *)
(* (starting # << >>) no other step is enabled.                            *)
(***************************************************************************)
EXTENDS Integers, Sequences, FiniteSets, TLC

VARIABLES
    files,      \* useState<UploadedFile[]>: the queue
    starting,   \* the elements of newFiles that forEach(uploadFile) has not reached
    tasks,      \* uploadFile calls suspended at an await: <<id, stage, detached>> -> how many
    unhandled,  \* TRUE once a promise returned by uploadFile has rejected
    formData    \* the fields of the FormData the latest call of uploadFile has posted

vars == <<files, starting, tasks, unhandled, formData>>

(***************************************************************************)
(* Bounds                                                                  *)
(***************************************************************************)
MaxQueue == 2     \* entries in the queue
MaxBatch == 2     \* handles in one FileList
MaxTasks == 2     \* uploadFile calls in flight
NumIds   == 2     \* distinct values the id expression can produce
MaxSummary == 40  \* entries in a queue whose summary is rendered

Ids == 1..NumIds

(***************************************************************************)
(* File handles: a name (a sequence of characters) and a media type        *)
(***************************************************************************)
Handle(name, type) == [name |-> name, type |-> type]

txtPlain == Handle(<<"a", ".", "t", "x", "t">>, "text/plain")
exeFile  == Handle(<<"a", ".", "e", "x", "e">>, "application/octet-stream")

\* The handles of the upload model: one that validateFile accepts, one it rejects
FileHandles == {txtPlain, exeFile}

\* The handles of the admission model: names with and without a '.', in
\* either case, under an allowed and a foreign media type
AllHandles ==
    { Handle(n, t) :
        n \in { <<"a", ".", "t", "x", "t">>,
                <<"a", ".", "P", "d", "F">>,
                <<"a", ".", "e", "x", "e">>,
                <<"a", ".", "t", "x", "t", ".", "e", "x", "e">>,
                <<"a", ".", "e", "x", "e", ".", "c", "s", "v">>,
                <<"a", ".">>,
                <<"a">>,
                <<"c", "s", "v">>,
                << >> },
        t \in { "application/vnd.ms-excel", "" } }

allowedTypes == {"text/plain", "application/pdf", "text/csv", "application/vnd.ms-excel"}

allowedExtensions ==
    { <<".", "t", "x", "t">>, <<".", "p", "d", "f">>, <<".", "c", "s", "v">> }

\* String.prototype.toLowerCase on one character
toLowerCase(c) ==
    CASE c = "A" -> "a" [] c = "C" -> "c" [] c = "D" -> "d" [] c = "E" -> "e"
      [] c = "F" -> "f" [] c = "P" -> "p" [] c = "S" -> "s" [] c = "T" -> "t"
      [] c = "V" -> "v" [] c = "X" -> "x" [] OTHER -> c

\* The index of the last '.' of a name, 0 when it has none
RECURSIVE LastDotFrom(_, _)
LastDotFrom(name, i) ==
    IF i = 0 THEN 0
    ELSE IF name[i] = "." THEN i
    ELSE LastDotFrom(name, i - 1)

LastDot(name) == LastDotFrom(name, Len(name))

\* name.split('.').pop(): the last piece, which is the whole name when it has no '.'
SplitPop(name) == SubSeq(name, LastDot(name) + 1, Len(name))

\* '.' + file.name.split('.').pop()?.toLowerCase()
extension(file) ==
    LET last == SplitPop(file.name)
    IN <<".">> \o [i \in 1..Len(last) |-> toLowerCase(last[i])]

validateFile(file) ==
    file.type \in allowedTypes \/ extension(file) \in allowedExtensions

(***************************************************************************)
(* Queue entries and the updaters passed to setFiles                       *)
(***************************************************************************)
\* { file, id, status: 'pending', progress: 0 }: the entry has no error property
NewEntry(file, id) ==
    [file |-> file, id |-> id, status |-> "pending", progress |-> 0]

\* A variant that puts the new entries first
AppendFilesPrepends(prev, newFiles) == newFiles \o prev

\* prev => [...prev, ...newFiles]
AppendFiles(prev, newFiles) == prev \o newFiles

\* A variant without progress: 0
SetUploadingKeepsProgress(prev, id) ==
    [i \in 1..Len(prev) |->
        IF prev[i].id = id
        THEN [prev[i] EXCEPT !.status = "uploading"]
        ELSE prev[i]]

\* A variant that queues no updater before the request
SetUploadingSkipped(prev, id) == prev

\* f.id === id ? { ...f, status: 'uploading', progress: 0 } : f
SetUploading(prev, id) ==
    [i \in 1..Len(prev) |->
        IF prev[i].id = id
        THEN [prev[i] EXCEPT !.status = "uploading", !.progress = 0]
        ELSE prev[i]]

\* f.id === id ? { ...f, status: 'success', progress: 100 } : f
SetSuccess(prev, id) ==
    [i \in 1..Len(prev) |->
        IF prev[i].id = id
        THEN [prev[i] EXCEPT !.status = "success", !.progress = 100]
        ELSE prev[i]]

\* f.id === id ? { ...f, status: 'error', progress: 0, error: message } : f
SetError(prev, id, message) ==
    [i \in 1..Len(prev) |->
        IF prev[i].id = id
        THEN ("error" :> message) @@
             [prev[i] EXCEPT !.status = "error", !.progress = 0]
        ELSE prev[i]]

\* A variant that takes out one entry by index, prev.splice(prev.findIndex(...), 1):
\* for an id the queue does not hold the index is -1 and the last entry goes
FilterOutSplice(prev, id) ==
    LET found == {j \in 1..Len(prev) : prev[j].id = id}
        at == IF found = {} THEN Len(prev)
              ELSE CHOOSE j \in found : \A k \in found : j <= k
    IN [j \in 1..(IF Len(prev) = 0 THEN 0 ELSE Len(prev) - 1) |->
            IF j < at THEN prev[j] ELSE prev[j + 1]]

\* prev => prev.filter(f => f.id !== id)
FilterOut(prev, id) == SelectSeq(prev, LAMBDA f : f.id # id)

(***************************************************************************)
(* Outcomes of a request.  A message is a sequence of string pieces, the   *)
(* pieces a template literal is put together from.                         *)
(***************************************************************************)
HttpStatuses == {200, 299, 500}

statusText(status) ==
    CASE status = 200 -> "OK"
      [] status = 500 -> "Internal Server Error"
      [] OTHER -> ""

\* A variant that takes every status from 200 upwards as a success
okFrom200(status) == status >= 200

\* response.ok
ok(status) == status \in 200..299

\* Values a rejected promise can carry: Error objects with their message, or
\* a value that is not an Error
ErrorObject(message) == [isError |-> TRUE, message |-> message]
NotAnError == [isError |-> FALSE, message |-> << >>]
Rejections == {ErrorObject(<<"Failed to fetch">>), NotAnError}

\* Values the promise of response.text() can reject with, once the response
\* has arrived: the stream of the body breaks off
BodyRejections == {ErrorObject(<<"network error">>), NotAnError}

\* new Error(`Upload failed: ${response.status} ${response.statusText}`)
HttpError(status) ==
    ErrorObject(<<"Upload failed: ", ToString(status), " ", statusText(status)>>)

\* error instanceof Error ? error.message : 'Upload failed'
CatchMessage(error) ==
    IF error.isError THEN error.message ELSE <<"Upload failed">>

\* The catch clause of uploadFile takes every thrown value
Caught(error) == TRUE

(***************************************************************************)
(* The userId field of a request                                           *)
(***************************************************************************)
\* Values of Math.random().toString(36): '0.' and the base-36 digits of the
\* fraction, as many as the number has (0.5 is '0.i')
RandomStrings ==
    { <<"0", ".", "4", "f", "z", "x", "0", "k", "q", "1", "m", "w", "2">>,
      <<"0", ".", "i">> }

\* String.prototype.substr(start, length), start counted from 0
substr(str, start, length) ==
    SubSeq(str, start + 1, IF start + length < Len(str) THEN start + length ELSE Len(str))

\* String.prototype.toUpperCase on one character
toUpperCase(c) ==
    CASE c = "a" -> "A" [] c = "f" -> "F" [] c = "i" -> "I" [] c = "k" -> "K"
      [] c = "m" -> "M" [] c = "q" -> "Q" [] c = "w" -> "W" [] c = "x" -> "X"
      [] c = "z" -> "Z" [] OTHER -> c

\* A variant without toUpperCase
userIdFieldLowerCase(random) == <<"U", "S", "R">> \o substr(random, 2, 9)

\* 'USR' + Math.random().toString(36).substr(2, 9).toUpperCase()
userIdField(random) ==
    LET digits == substr(random, 2, 9)
    IN <<"U", "S", "R">> \o [i \in 1..Len(digits) |-> toUpperCase(digits[i])]

\* No call of uploadFile has built a FormData yet
NoFormData == [filename |-> << >>, filetype |-> "", userId |-> << >>]

(***************************************************************************)
(* The summary the component renders.  The percentage is computed on       *)
(* Numbers, IEEE 754 double precision: a positive value is m * 2^e, where  *)
(* m has Precision bits, the first of them 1, and is kept as three limbs   *)
(* of 17, 18 and 18 bits, and e is the weight of the last bit; the value 0 *)
(* has m = 0.  Division and multiplication round to the nearest value,     *)
(* ties to the even one.                                                   *)
(***************************************************************************)
Precision == 53

HiLimb == 2 ^ 17
Limb   == 2 ^ 18

Zero == [m |-> <<0, 0, 0>>, e |-> 0]

\* The number of zero bits between the binary point and the first 1 of r / t,
\* for 0 < r < t
RECURSIVE LeadingZeros(_, _)
LeadingZeros(r, t) == IF 2 * r >= t THEN 0 ELSE 1 + LeadingZeros(2 * r, t)

\* m + 1; a carry out of the first limb gives the next power of two
Increment(m, e) ==
    IF m[3] + 1 < Limb THEN [m |-> <<m[1], m[2], m[3] + 1>>, e |-> e]
    ELSE IF m[2] + 1 < Limb THEN [m |-> <<m[1], m[2] + 1, 0>>, e |-> e]
    ELSE IF m[1] + 1 < HiLimb THEN [m |-> <<m[1] + 1, 0, 0>>, e |-> e]
    ELSE [m |-> <<HiLimb \div 2, 0, 0>>, e |-> e + 1]

\* Round to nearest, ties to even: m, the bit after it, and whether any later
\* bit is 1
RoundNearestEven(m, roundBit, sticky, e) ==
    IF roundBit = 1 /\ (sticky \/ (m[3] % 2) = 1)
    THEN Increment(m, e)
    ELSE [m |-> m, e |-> e]

\* s / t on Numbers, for integers 0 <= s <= t and t > 0: long division, one
\* limb at a time
Divide(s, t) ==
    IF s = 0 THEN Zero
    ELSE IF s = t THEN [m |-> <<HiLimb \div 2, 0, 0>>, e |-> 1 - Precision]
    ELSE LET z  == LeadingZeros(s, t)
             a1 == s * (2 ^ z) * HiLimb
             a2 == (a1 % t) * Limb
             a3 == (a2 % t) * Limb
             a4 == (a3 % t) * 2
         IN RoundNearestEven(<<a1 \div t, a2 \div t, a3 \div t>>,
                             a4 \div t, (a4 % t) # 0, 0 - (z + Precision))

\* x * k on Numbers, for an integer 0 < k < 2^13
Times(x, k) ==
    IF x.m = Zero.m THEN Zero
    ELSE LET p3 == x.m[3] * k
             p2 == (x.m[2] * k) + (p3 \div Limb)
             p1 == (x.m[1] * k) + (p2 \div Limb)
             l2 == p2 % Limb
             l3 == p3 % Limb
             \* the bits the product has more than Precision
             sh == CHOOSE n \in 0..13 : p1 \div (2 ^ n) \in (HiLimb \div 2)..(HiLimb - 1)
             d  == 2 ^ sh
         IN IF sh = 0 THEN [m |-> <<p1, l2, l3>>, e |-> x.e]
            ELSE RoundNearestEven(<<p1 \div d,
                                    ((p1 % d) * Limb + l2) \div d,
                                    ((l2 % d) * Limb + l3) \div d>>,
                                  (l3 % d) \div (d \div 2),
                                  ((l3 % d) % (d \div 2)) # 0,
                                  x.e + sh)

\* Math.round: the nearest integer, the larger one of two equally near; for
\* 0 <= x < 2^16
MathRound(x) ==
    LET n == Precision + x.e     \* the bits of m before the binary point
    IN CASE x.m = Zero.m -> 0
         [] x.m # Zero.m /\ n < 0 -> 0
         [] x.m # Zero.m /\ n \in 0..16 ->
                (x.m[1] \div (2 ^ (17 - n))) + ((x.m[1] \div (2 ^ (16 - n))) % 2)

\* files.filter(f => f.status === 'success').length
succeeded(fs) == Len(SelectSeq(fs, LAMBDA f : f.status = "success"))

\* Math.round((files.filter(...).length / files.length) * 100)
percentComplete(fs) == MathRound(Times(Divide(succeeded(fs), Len(fs)), 100))

\* The summary block is rendered only when files.length > 0
NoSummary == [rendered |-> FALSE]

Summary(fs) ==
    IF Len(fs) > 0
    THEN [rendered |-> TRUE, succeeded |-> succeeded(fs), total |-> Len(fs),
          percentComplete |-> percentComplete(fs)]
    ELSE NoSummary

(***************************************************************************)
(* State                                                                   *)
(***************************************************************************)
\* A suspended uploadFile call holds the id of its entry and waits either for
\* fetch or for response.text().  detached records that removeFile has taken
\* the call's entry out of the queue since the call began (the code keeps no
\* such mark; the call runs on all the same).
Stages == {"fetch", "text"}
TaskKeys == Ids \X Stages \X BOOLEAN

NoTasks == [k \in TaskKeys |-> 0]

\* The suspended calls of one id, and of all ids
CallsOf(t, id) ==
    t[<<id, "fetch", FALSE>>] + t[<<id, "fetch", TRUE>>]
        + t[<<id, "text", FALSE>>] + t[<<id, "text", TRUE>>]

RECURSIVE CallsUpTo(_, _)
CallsUpTo(t, n) == IF n = 0 THEN 0 ELSE CallsOf(t, n) + CallsUpTo(t, n - 1)

InFlight == CallsUpTo(tasks, NumIds)

Init ==
    /\ files = << >>
    /\ starting = << >>
    /\ tasks = NoTasks
    /\ unhandled = FALSE
    /\ formData = NoFormData

Idle == starting = << >>

\* Sequences of handles of length 0..MaxBatch
Batches(H) == UNION { [1..n -> H] : n \in 0..MaxBatch }

\* The FileLists handed to handleFiles in the upload model
UploadBatches == Batches(FileHandles)

\* The values Math.random().toString(36).substr(2, 9) takes, one for each
\* accepted handle of the batch; no draw depends on the ids already in use
RandomIds(fileList) == [1..Len(SelectSeq(fileList, validateFile)) -> Ids]

\* handleFiles up to its forEach loop: validate, wrap, append
handleFiles(fileList, rnd) ==
    LET accepted == SelectSeq(fileList, validateFile)
        newFiles == [i \in 1..Len(accepted) |-> NewEntry(accepted[i], rnd[i])]
    IN /\ Idle
       /\ Len(files) + Len(newFiles) <= MaxQueue
       /\ InFlight + Len(newFiles) <= MaxTasks
       /\ files' = AppendFiles(files, newFiles)
       /\ starting' = newFiles
       /\ UNCHANGED <<tasks, unhandled, formData>>

\* uploadFile up to its first await: build the FormData, queue the 'uploading'
\* updater, call fetch
uploadFile(uploadedFile) ==
    /\ \E random \in RandomStrings :
            formData' = [filename |-> uploadedFile.file.name,
                         filetype |-> uploadedFile.file.type,
                         userId   |-> userIdField(random)]
    /\ files' = SetUploading(files, uploadedFile.id)
    /\ tasks' = [tasks EXCEPT ![<<uploadedFile.id, "fetch", FALSE>>] = @ + 1]
    /\ UNCHANGED unhandled

\* newFiles.forEach(uploadFile), one element
forEachUploadFile ==
    /\ starting # << >>
    /\ uploadFile(Head(starting))
    /\ starting' = Tail(starting)

\* retryUpload is called with an entry of the rendered queue
retryUpload(i) ==
    /\ Idle
    /\ i \in 1..Len(files)
    /\ InFlight < MaxTasks
    /\ uploadFile(files[i])
    /\ UNCHANGED starting

\* The calls of the id that are still attached become detached
Detach(t, id) ==
    [k \in TaskKeys |->
        IF k[1] # id THEN t[k]
        ELSE IF k[3] THEN t[k] + t[<<k[1], k[2], FALSE>>]
        ELSE 0]

removeFile(id) ==
    /\ Idle
    /\ files' = FilterOut(files, id)
    /\ tasks' = Detach(tasks, id)
    /\ UNCHANGED <<starting, unhandled, formData>>

\* The catch block of uploadFile
catch(id, error) ==
    /\ files' = IF Caught(error) THEN SetError(files, id, CatchMessage(error)) ELSE files
    /\ unhandled' = (unhandled \/ ~Caught(error))

\* A variant that marks the entry as uploaded as soon as a 2xx response arrives
fetchResolvesMarksSuccess(id, d, status) ==
    /\ Idle
    /\ tasks[<<id, "fetch", d>>] > 0
    /\ IF ok(status)
       THEN /\ tasks' = [tasks EXCEPT ![<<id, "fetch", d>>] = @ - 1,
                                      ![<<id, "text", d>>] = @ + 1]
            /\ files' = SetSuccess(files, id)
            /\ UNCHANGED unhandled
       ELSE /\ tasks' = [tasks EXCEPT ![<<id, "fetch", d>>] = @ - 1]
            /\ catch(id, HttpError(status))
    /\ UNCHANGED <<starting, formData>>

\* await fetch(...) settles with a response
fetchResolves(id, d, status) ==
    /\ Idle
    /\ tasks[<<id, "fetch", d>>] > 0
    /\ IF ok(status)
       THEN /\ tasks' = [tasks EXCEPT ![<<id, "fetch", d>>] = @ - 1,
                                      ![<<id, "text", d>>] = @ + 1]
            /\ UNCHANGED <<files, unhandled>>
       ELSE /\ tasks' = [tasks EXCEPT ![<<id, "fetch", d>>] = @ - 1]
            /\ catch(id, HttpError(status))
    /\ UNCHANGED <<starting, formData>>

\* A variant whose catch block issues the request again
fetchRejectsAndRetries(id, d, error) ==
    /\ Idle
    /\ tasks[<<id, "fetch", d>>] > 0
    /\ tasks' = tasks
    /\ catch(id, error)
    /\ UNCHANGED <<starting, formData>>

\* await fetch(...) rejects
fetchRejects(id, d, error) ==
    /\ Idle
    /\ tasks[<<id, "fetch", d>>] > 0
    /\ tasks' = [tasks EXCEPT ![<<id, "fetch", d>>] = @ - 1]
    /\ catch(id, error)
    /\ UNCHANGED <<starting, formData>>

\* await response.text() settles with the body
textResolves(id, d) ==
    /\ Idle
    /\ tasks[<<id, "text", d>>] > 0
    /\ tasks' = [tasks EXCEPT ![<<id, "text", d>>] = @ - 1]
    /\ files' = SetSuccess(files, id)
    /\ UNCHANGED <<starting, unhandled, formData>>

\* await response.text() rejects
textRejects(id, d, error) ==
    /\ Idle
    /\ tasks[<<id, "text", d>>] > 0
    /\ tasks' = [tasks EXCEPT ![<<id, "text", d>>] = @ - 1]
    /\ catch(id, error)
    /\ UNCHANGED <<starting, formData>>

Next ==
    \/ \E fileList \in UploadBatches :
            \E rnd \in RandomIds(fileList) : handleFiles(fileList, rnd)
    \/ forEachUploadFile
    \/ \E i \in 1..MaxQueue : retryUpload(i)
    \/ \E id \in Ids : removeFile(id)
    \/ \E id \in Ids, d \in BOOLEAN, status \in HttpStatuses : fetchResolves(id, d, status)
    \/ \E id \in Ids, d \in BOOLEAN, error \in Rejections : fetchRejects(id, d, error)
    \/ \E id \in Ids, d \in BOOLEAN : textResolves(id, d)
    \/ \E id \in Ids, d \in BOOLEAN, error \in BodyRejections : textRejects(id, d, error)

Spec == Init /\ [][Next]_vars

\* The Retry button is rendered for the entries whose status is 'error'
retryClick(i) ==
    /\ i \in 1..Len(files)
    /\ files[i].status = "error"
    /\ retryUpload(i)

\* The component driven through its rendered controls
NextUI ==
    \/ \E fileList \in UploadBatches :
            \E rnd \in RandomIds(fileList) : handleFiles(fileList, rnd)
    \/ forEachUploadFile
    \/ \E i \in 1..MaxQueue : retryClick(i)
    \/ \E id \in Ids : removeFile(id)
    \/ \E id \in Ids, d \in BOOLEAN, status \in HttpStatuses : fetchResolves(id, d, status)
    \/ \E id \in Ids, d \in BOOLEAN, error \in Rejections : fetchRejects(id, d, error)
    \/ \E id \in Ids, d \in BOOLEAN : textResolves(id, d)
    \/ \E id \in Ids, d \in BOOLEAN, error \in BodyRejections : textRejects(id, d, error)

SpecUI == Init /\ [][NextUI]_vars

\* A call that waits for fetch gets its answer
FetchSettles(id, d) ==
    \/ \E status \in HttpStatuses : fetchResolves(id, d, status)
    \/ \E error \in Rejections : fetchRejects(id, d, error)

\* A call that waits for response.text() gets its answer
TextSettles(id, d) ==
    \/ textResolves(id, d)
    \/ \E error \in BodyRejections : textRejects(id, d, error)

\* The forEach loop runs to its end without a break, and the event loop takes
\* up every settlement of a promise, however often other handlers run first
Fairness ==
    /\ WF_vars(forEachUploadFile)
    /\ \A id \in Ids, d \in BOOLEAN :
          SF_vars(FetchSettles(id, d)) /\ SF_vars(TextSettles(id, d))

SpecUIFair == SpecUI /\ Fairness

\* Admission and removal alone, over the larger set of handles: every single
\* handle, and the batches of the upload model
AdmitBatches == { <<h>> : h \in AllHandles } \cup Batches(FileHandles)

NextAdmit ==
    \/ \E fileList \in AdmitBatches :
            \E rnd \in RandomIds(fileList) : handleFiles(fileList, rnd)
    \/ forEachUploadFile
    \/ \E id \in Ids : removeFile(id)

SpecAdmit == Init /\ [][NextAdmit]_vars

\* The queues the summary is rendered for: t entries with ids of their own, no
\* call in flight, the uploads of the first s succeeded and the others failed
SummaryQueue(s, t) ==
    [i \in 1..t |->
        IF i <= s
        THEN SetSuccess(<<NewEntry(txtPlain, i)>>, i)[1]
        ELSE SetError(<<NewEntry(txtPlain, i)>>, i, CatchMessage(NotAnError))[1]]

InitSummary ==
    /\ \E t \in 0..MaxSummary : \E s \in 0..t : files = SummaryQueue(s, t)
    /\ starting = << >>
    /\ tasks = NoTasks
    /\ unhandled = FALSE
    /\ formData = NoFormData

\* The last entry of the queue is removed
NextSummary ==
    /\ Len(files) > 0
    /\ removeFile(files[Len(files)].id)

SpecSummary == InitSummary /\ [][NextSummary]_vars

(***************************************************************************)
(* Properties                                                              *)
(***************************************************************************)
HasError(f) == "error" \in DOMAIN f

\* C1: every entry has an error message if and only if its status is error.
C1_ErrorIffStatusError ==
    \A i \in 1..Len(files) : HasError(files[i]) <=> files[i].status = "error"

\* C2: success is terminal: an entry whose status is success keeps that
\* status for as long as it stays in the queue.
C2_SuccessIsTerminal ==
    [][\A i \in 1..Len(files) :
          (files[i].status = "success" /\ Len(files') >= Len(files))
              => files'[i].status = "success"]_vars

\* C3: when the body of a successful response has been read for an entry that
\* carries the message of an earlier failure, the same entry is left with
\* status success, progress 100 and no error message.
C3_RetrySuccessClearsError ==
    [][\A id \in Ids, d \in BOOLEAN :
          textResolves(id, d) =>
              \A i \in 1..Len(files) :
                  (files[i].id = id /\ HasError(files[i])) =>
                      /\ files'[i].id = files[i].id
                      /\ files'[i].file = files[i].file
                      /\ files'[i].status = "success"
                      /\ files'[i].progress = 100
                      /\ ~HasError(files'[i])]_vars

\* A step in which a call of the id whose entry was removed settles
LateSettlement(id) ==
    \/ \E status \in HttpStatuses : fetchResolves(id, TRUE, status)
    \/ \E error \in Rejections : fetchRejects(id, TRUE, error)
    \/ textResolves(id, TRUE)
    \/ \E error \in BodyRejections : textRejects(id, TRUE, error)

\* C4: the settlement of an upload whose entry was removed while the upload
\* was in flight leaves the queue as it is and raises nothing.
C4_LateCompletionIsNoOp ==
    [][\A id \in Ids : LateSettlement(id) => (files' = files /\ ~unhandled')]_vars

\* Acceptance as the specification defines it: the extension is the lowercased
\* substring after the last '.', and a name without '.' has none
SpecAcceptable(file) ==
    \/ file.type \in {"text/plain", "application/pdf", "text/csv", "application/vnd.ms-excel"}
    \/ /\ LastDot(file.name) > 0
       /\ [i \in 1..(Len(file.name) - LastDot(file.name)) |->
              toLowerCase(file.name[LastDot(file.name) + i])]
              \in { <<"t", "x", "t">>, <<"p", "d", "f">>, <<"c", "s", "v">> }

\* C5: admit creates an entry for a handle if and only if its media type is
\* allowed or the lowercased substring after the last '.' of its name is
\* txt, pdf or csv; every other handle produces no entry.
C5_AdmitIffAcceptable ==
    [][\A fileList \in AdmitBatches : \A rnd \in RandomIds(fileList) :
          handleFiles(fileList, rnd) =>
              [i \in 1..Len(starting') |-> starting'[i].file]
                  = SelectSeq(fileList, SpecAcceptable)]_vars

\* C6: progress is 100 exactly for the entries whose status is success, and
\* an entry in uploading or in error has progress 0.
C6_ProgressMatchesStatus ==
    \A i \in 1..Len(files) :
        /\ files[i].progress = 100 <=> files[i].status = "success"
        /\ files[i].status \in {"uploading", "error"} => files[i].progress = 0

C6_Witness ==
    \E i, j \in 1..Len(files) :
        /\ files[i].status = "success" /\ files[i].progress = 100
        /\ files[j].status = "uploading" /\ HasError(files[j]) /\ files[j].progress = 0

\* C7: a pending entry changes only to uploading, and while an entry is
\* pending the only step taken is the start of an upload, so no request
\* outcome is applied to it before it is uploading.
C7_PendingOnlyToUploading ==
    [][\A i \in 1..Len(files) :
          files[i].status = "pending" =>
              /\ forEachUploadFile
              /\ i <= Len(files')
              /\ files'[i].status \in {"pending", "uploading"}]_vars

C7_Witness ==
    \E i, j \in 1..Len(files) :
        /\ files[i].status = "uploading"
        /\ files[j].status = "pending"
        /\ InFlight > 0

\* C8: no two entries of the queue have the same id.
C8_UniqueIds ==
    \A i, j \in 1..Len(files) : i # j => files[i].id # files[j].id

\* The elements of seq at the indices in S, in their order
Pick(seq, S) ==
    LET F[i \in 0..Len(seq)] ==
            IF i = 0 THEN << >>
            ELSE IF i \in S THEN Append(F[i - 1], seq[i]) ELSE F[i - 1]
    IN F[Len(seq)]

TextCalls(t, id) == t[<<id, "text", FALSE>>] + t[<<id, "text", TRUE>>]

\* C10: a response outside 200-299 sets the entry to error with a message
\* that contains the status code; a rejected request sets it to error with the
\* rejection's message, or with 'Upload failed' when the rejection is not an
\* Error; a 2xx response alone changes nothing, a call waits for the body only
\* after a 2xx response, and an entry becomes success only when a body has been
\* read; no call of uploadFile rejects.
C10_OutcomeToStatus ==
    [][/\ \A id \in Ids, d \in BOOLEAN, status \in HttpStatuses :
              fetchResolves(id, d, status) =>
                  IF status \in 200..299
                  THEN files' = files
                  ELSE \A i \in 1..Len(files) : files[i].id = id =>
                          /\ files'[i].status = "error"
                          /\ HasError(files'[i])
                          /\ \E k \in 1..Len(files'[i].error) :
                                files'[i].error[k] = ToString(status)
       /\ \A id \in Ids, d \in BOOLEAN, error \in Rejections :
              fetchRejects(id, d, error) =>
                  \A i \in 1..Len(files) : files[i].id = id =>
                      /\ files'[i].status = "error"
                      /\ HasError(files'[i])
                      /\ files'[i].error =
                            IF error.isError THEN error.message ELSE <<"Upload failed">>
       /\ \A id \in Ids :
              TextCalls(tasks', id) > TextCalls(tasks, id) =>
                  \E d \in BOOLEAN, status \in HttpStatuses :
                      status \in 200..299 /\ fetchResolves(id, d, status)
       /\ \A i \in 1..Len(files) :
              (Len(files') = Len(files) /\ files[i].status # "success"
                  /\ files'[i].status = "success") =>
                  \E d \in BOOLEAN : textResolves(files[i].id, d)
       /\ ~unhandled']_vars

C10_Witness ==
    \E i \in 1..Len(files) :
        /\ files[i].status = "error"
        /\ files[i].error = <<"Upload failed: ", "500", " ", "Internal Server Error">>

\* The calls of an id that wait for fetch: the requests issued and not answered
FetchCalls(t, id) == t[<<id, "fetch", FALSE>>] + t[<<id, "fetch", TRUE>>]

\* A step in which an upload fails
UploadFails(id) ==
    \/ \E d \in BOOLEAN, status \in HttpStatuses :
            ~(status \in 200..299) /\ fetchResolves(id, d, status)
    \/ \E d \in BOOLEAN, error \in Rejections : fetchRejects(id, d, error)
    \/ \E d \in BOOLEAN, error \in BodyRejections : textRejects(id, d, error)

\* C11: requests are issued only by admission and by retry.  A request for an
\* id is issued only by the forEach loop of an admission, for the entry it has
\* reached, or by a retry of an entry with that id, and each of the two issues
\* exactly one; an admission hands the loop exactly the entries it appended,
\* none of them for a rejected handle, and the loop takes each of them once; a
\* failed upload ends its call and issues nothing.
C11_RequestsOnlyByAdmitAndRetry ==
    [][/\ \A id \in Ids :
              FetchCalls(tasks', id) > FetchCalls(tasks, id) =>
                  /\ FetchCalls(tasks', id) = FetchCalls(tasks, id) + 1
                  /\ InFlight' = InFlight + 1
                  /\ \/ forEachUploadFile /\ Head(starting).id = id
                     \/ \E i \in 1..Len(files) : retryUpload(i) /\ files[i].id = id
       /\ forEachUploadFile =>
              /\ FetchCalls(tasks', Head(starting).id)
                    = FetchCalls(tasks, Head(starting).id) + 1
              /\ Len(starting') = Len(starting) - 1
       /\ \A i \in 1..Len(files) :
              retryUpload(i) =>
                  FetchCalls(tasks', files[i].id) = FetchCalls(tasks, files[i].id) + 1
       /\ \A fileList \in UploadBatches : \A rnd \in RandomIds(fileList) :
              handleFiles(fileList, rnd) =>
                  /\ tasks' = tasks
                  /\ starting' = SubSeq(files', Len(files) + 1, Len(files'))
                  /\ Len(starting') =
                        Cardinality({k \in 1..Len(fileList) : fileList[k] # exeFile})
                  /\ \A k \in 1..Len(starting') : starting'[k].file # exeFile
       /\ \A id \in Ids :
              UploadFails(id) =>
                  /\ InFlight' = InFlight - 1
                  /\ \A other \in Ids : FetchCalls(tasks', other) <= FetchCalls(tasks, other)]_vars

\* An upload has failed, its entry is in error, and no request is in flight
C11_Witness ==
    /\ Idle
    /\ InFlight = 0
    /\ \E i \in 1..Len(files) : files[i].status = "error"

\* C12: while the queue is not empty the summary shows the number of entries
\* whose status is success, the length of the queue, and the integer nearest
\* to 100 * succeeded / total, the larger one of two equally near (2 of 3
\* gives 67); for the empty queue no summary is rendered.
C12_SummaryMatchesQueue ==
    LET n == Cardinality({i \in 1..Len(files) : files[i].status = "success"})
        t == Len(files)
        p == Summary(files).percentComplete
    IN IF t = 0
       THEN Summary(files) = NoSummary
       ELSE /\ Summary(files).rendered
            /\ Summary(files).succeeded = n
            /\ Summary(files).total = t
            /\ 2 * (100 * n - p * t) >= 0 - t
            /\ 2 * (100 * n - p * t) < t
            /\ (n = 2 /\ t = 3) => p = 67

\* A step in which a call of the id settles, whatever the outcome
SettleStep(id, d) ==
    \/ \E status \in HttpStatuses : fetchResolves(id, d, status)
    \/ \E error \in Rejections : fetchRejects(id, d, error)
    \/ textResolves(id, d)
    \/ \E error \in BodyRejections : textRejects(id, d, error)

\* The places of the queue whose entry a step changes
Changed == {j \in 1..Len(files) : files'[j] # files[j]}

\* C13: a status update made for one entry's upload (its start, its success or
\* its failure) keeps the length of the queue and changes no entry but that
\* one: the start of an upload changes at most the entry it is called with,
\* and a settlement changes at most the one entry the call was started for,
\* which is none when that entry has been removed.
C13_SiblingsUnchanged ==
    [][/\ forEachUploadFile =>
              /\ Len(files') = Len(files)
              /\ Changed \subseteq {Len(files) - Len(starting) + 1}
       /\ \A i \in 1..Len(files) :
              retryUpload(i) =>
                  /\ Len(files') = Len(files)
                  /\ Changed \subseteq {i}
       /\ \A id \in Ids, d \in BOOLEAN :
              SettleStep(id, d) =>
                  /\ Len(files') = Len(files)
                  /\ IF d THEN Changed = {}
                     ELSE /\ Cardinality(Changed) <= 1
                          /\ \A j \in Changed : files[j].id = id]_vars

\* C14: removing an id the queue does not hold leaves the queue as it is and
\* raises nothing; a removal takes out the entries with that id and no other
\* entry, the remaining ones keeping their order; after it the queue holds no
\* entry with the id, so that removing the id again changes nothing.
C14_RemoveIdempotent ==
    [][\A id \in Ids :
          removeFile(id) =>
              /\ (\A j \in 1..Len(files) : files[j].id # id) => files' = files
              /\ unhandled' = unhandled
              /\ files' = Pick(files, {j \in 1..Len(files) : files[j].id # id})
              /\ \A j \in 1..Len(files') : files'[j].id # id
              /\ FilterOut(files', id) = files']_vars

\* An id has been removed while its call was in flight, the queue holds other
\* entries and none with that id: removing it again is the removal of an
\* absent id
C14_Witness ==
    /\ Len(files) > 0
    /\ \E id \in Ids :
          /\ tasks[<<id, "fetch", TRUE>>] + tasks[<<id, "text", TRUE>>] > 0
          /\ \A j \in 1..Len(files) : files[j].id # id

\* The fields of an entry
EntryFields == {"file", "id", "status", "progress", "error"}

\* C15 as the specification has it: the userId of every request is 'USR' and
\* 9 characters, each a digit or a lowercase letter, and no entry of the queue
\* has a field that holds it.
C15_UserIdLowerCase ==
    /\ formData # NoFormData =>
          /\ Len(formData.userId) = 12
          /\ SubSeq(formData.userId, 1, 3) = <<"U", "S", "R">>
          /\ \A i \in 4..Len(formData.userId) :
                formData.userId[i] \in
                    {"0", "1", "2", "3", "4", "5", "6", "7", "8", "9",
                     "a", "b", "c", "d", "e", "f", "g", "h", "i", "j", "k", "l", "m",
                     "n", "o", "p", "q", "r", "s", "t", "u", "v", "w", "x", "y", "z"}
    /\ \A i \in 1..Len(files) : DOMAIN files[i] \subseteq EntryFields

\* C15, amended: every start of an upload, a retry included, posts a userId
\* made for that request, 'USR' and at most 9 characters, each a digit or an
\* uppercase letter, and no entry of the queue has a field that holds it.
C15_UserIdUpperCase ==
    [][/\ (forEachUploadFile \/ \E i \in 1..Len(files) : retryUpload(i)) =>
              /\ formData' # NoFormData
              /\ Len(formData'.userId) \in 3..12
              /\ SubSeq(formData'.userId, 1, 3) = <<"U", "S", "R">>
              /\ \A i \in 4..Len(formData'.userId) :
                    formData'.userId[i] \in
                        {"0", "1", "2", "3", "4", "5", "6", "7", "8", "9",
                         "A", "B", "C", "D", "E", "F", "G", "H", "I", "J", "K", "L", "M",
                         "N", "O", "P", "Q", "R", "S", "T", "U", "V", "W", "X", "Y", "Z"}
       /\ formData' # formData =>
              (forEachUploadFile \/ \E i \in 1..Len(files) : retryUpload(i))
       /\ \A i \in 1..Len(files') : DOMAIN files'[i] \subseteq EntryFields]_vars

\* A retried entry is uploading again, and the request of the retry carries a
\* userId of fewer than 9 characters after 'USR'
C15_Witness ==
    /\ formData.userId = <<"U", "S", "R", "I">>
    /\ \E i \in 1..Len(files) :
          files[i].status = "uploading" /\ HasError(files[i])

\* An entry with the id waits for its upload to end
Unsettled(id) ==
    \E i \in 1..Len(files) :
        files[i].id = id /\ files[i].status \in {"pending", "uploading"}

\* C16, its progress part: an entry that is pending or uploading comes to
\* success or error, or is removed.
C16_EventuallySettled ==
    \A id \in Ids : Unsettled(id) ~> ~Unsettled(id)

\* C16, its other part: an entry in error stays in the queue and in error in
\* every step that is neither its retry nor a removal.
C16_ErrorUntilRetry ==
    [][\A i \in 1..Len(files) :
          (files[i].status = "error" /\ ~retryClick(i) /\ ~\E id \in Ids : removeFile(id)) =>
              /\ Len(files') >= Len(files)
              /\ files'[i].id = files[i].id
              /\ files'[i].status = "error"]_vars

\* C16: when every request is answered, every admitted entry that is not
\* removed leaves pending and uploading and reaches success or error, and an
\* entry in error stays there until it is retried.
C16_Liveness == C16_EventuallySettled /\ C16_ErrorUntilRetry

\* The ways an upload can end: its body was read, or the catch block took a
\* failure with its message
Outcomes ==
    {[ok |-> TRUE, message |-> << >>]}
        \cup {[ok |-> FALSE, message |-> CatchMessage(e)] :
                  e \in Rejections \cup BodyRejections
                        \cup {HttpError(status) : status \in {500}}}

\* The updater a call queues when it ends with the outcome
Complete(fs, id, o) ==
    IF o.ok THEN SetSuccess(fs, id) ELSE SetError(fs, id, o.message)

\* The calls of an id whose entry has not been removed
Attached(id) == tasks[<<id, "fetch", FALSE>>] + tasks[<<id, "text", FALSE>>]

\* Two calls are in flight, one with id1 and another one with id2
TwoInFlight(id1, id2) ==
    IF id1 = id2 THEN Attached(id1) >= 2
    ELSE Attached(id1) >= 1 /\ Attached(id2) >= 1

\* C17: the forEach loop of an admission starts one call for each entry and
\* ends none, so the calls of a batch are in flight together; and whenever
\* two calls are in flight, their completions give the same queue in either
\* order, with each call's entries left in the status of that call's own outcome.
C17_CompletionOrderFree ==
    [][/\ forEachUploadFile =>
              /\ InFlight' = InFlight + 1
              /\ \A id \in Ids : CallsOf(tasks', id) >= CallsOf(tasks, id)
       /\ \A id1, id2 \in Ids : \A o1, o2 \in Outcomes :
              TwoInFlight(id1, id2) =>
                  LET first  == Complete(Complete(files, id1, o1), id2, o2)
                      second == Complete(Complete(files, id2, o2), id1, o1)
                  IN /\ first = second
                     /\ \A i \in 1..Len(files) :
                           /\ files[i].id = id1 =>
                                 first[i].status = (IF o1.ok THEN "success" ELSE "error")
                           /\ files[i].id = id2 =>
                                 first[i].status = (IF o2.ok THEN "success" ELSE "error")]_vars

\* C18: with retry taken only from the Retry button, which is there for the
\* entries in error, every id of the queue has at most one call in flight,
\* and an entry is uploading exactly when a call with its id is in flight.
C18_OneCallPerEntry ==
    \A i \in 1..Len(files) :
        /\ Attached(files[i].id) <= 1
        /\ files[i].status = "uploading" <=> Attached(files[i].id) = 1

\* C19: a 2xx response by itself changes no entry: its call goes on to wait
\* for the body; an entry becomes success only in the step in which a body
\* has been read; and when reading the body fails, the entries with the
\* call's id are left in error with progress 0 and the failure's message,
\* and nothing is thrown.
C19_SuccessOnlyAfterBody ==
    [][/\ \A id \in Ids, d \in BOOLEAN, status \in HttpStatuses :
              (status \in 200..299 /\ fetchResolves(id, d, status)) =>
                  /\ files' = files
                  /\ tasks'[<<id, "text", d>>] = tasks[<<id, "text", d>>] + 1
       /\ \A i \in 1..Len(files) :
              (i <= Len(files') /\ files'[i].id = files[i].id
                  /\ files[i].status # "success" /\ files'[i].status = "success") =>
                  /\ TextCalls(tasks, files[i].id) > 0
                  /\ TextCalls(tasks', files[i].id) = TextCalls(tasks, files[i].id) - 1
                  /\ FetchCalls(tasks', files[i].id) = FetchCalls(tasks, files[i].id)
       /\ \A id \in Ids, d \in BOOLEAN, error \in BodyRejections :
              textRejects(id, d, error) =>
                  /\ Len(files') = Len(files)
                  /\ unhandled' = unhandled
                  /\ \A i \in 1..Len(files) :
                        files[i].id = id =>
                            /\ files'[i].status = "error"
                            /\ files'[i].progress = 0
                            /\ HasError(files'[i])
                            /\ files'[i].error =
                                  IF error.isError THEN error.message
                                  ELSE <<"Upload failed">>]_vars

\* A 2xx response has arrived for an entry and reading its body has failed
C19_Witness ==
    \E i \in 1..Len(files) :
        /\ files[i].status = "error"
        /\ files[i].progress = 0
        /\ files[i].error = <<"network error">>

====
